---- MODULE Spec2Model ----
(***************************************************************************)
(* QIBackend (src/src/quantuminspire/projectq/backend_qx.py): the ProjectQ *)
(* backend that translates a command stream into cQASM, hands the program  *)
(* to the Quantum Inspire API at a flush and turns the returned histogram  *)
(* into probabilities and measurement results.                             *)
(*                                                                         *)
(* Text is modelled line by line: a program is a sequence of line records  *)
(* [mn, qs, ang] (mnemonic, qubit indices in textual order, angle text).   *)
(* Bit strings are sequences of the one-character strings "0" and "1".     *)
(* A Python dict is a sequence of <<key, value>> pairs in insertion order. *)
(* Probabilities are kept exactly: a stored probability count/num_runs is  *)
(* held as its numerator, the integer count.  A histogram value and the    *)
(* random draw are rationals [num, den].                                   *)
(***************************************************************************)
EXTENDS Integers, Sequences, FiniteSets, TLC

\* ---------------------------------------------------------------- bounds
MaxId == 1            \* logical / command qubit identifiers are 0..MaxId
MaxLines == 4         \* most lines (gate and measurement) of a program body
MaxStream == 3        \* most gate and Measure commands of a circuit on qubit 0
MaxCtrl == 3          \* most control qubits of a command
MaxShots == 2         \* the shot counts of a job are 0..MaxShots
MaxCircuits == 2      \* a job has 1..MaxCircuits circuits

\* ------------------------------------------- the constructor's arguments
NQubits == 2          \* nqubits
NumRuns == 4          \* num_runs

Ids == 0..MaxId

VARIABLES
    allocated_qubits,   \* self._allocated_qubits
    measured_ids,       \* self._measured_ids
    max_qubit_id,       \* self._max_qubit_id
    clear,              \* self._clear
    qasm,               \* self.qasm, the buffer
    cqasm,              \* self._cqasm, the program generated last
    probabilities,      \* self._probabilities
    perform_execution,  \* self._perform_execution
    mapping,            \* main_engine.mapper.current_mapping
    ran,                \* history: an executed run completed and no command came since
    since,              \* history: the ids allocated since the previous flush
    emitted,            \* history: a command appended a line since the previous flush
    last,               \* history: what the most recent call did
    call,               \* the one call a function specification examines: its
                        \*   argument, drawn at Init, and its return value
    stream,             \* history: the lines and measured ids of the commands
                        \*   received since the previous flush, and whether that
                        \*   flush returned
    simulator           \* the QiSimulatorPy object

vars == <<allocated_qubits, measured_ids, max_qubit_id, clear, qasm, cqasm,
          probabilities, perform_execution, mapping, ran, since, emitted, last,
          call, stream, simulator>>

\* ------------------------------------------------------------ Python dict
RECURSIVE DictHas(_, _)
DictHas(d, k) ==
    IF d = <<>> THEN FALSE
    ELSE IF Head(d)[1] = k THEN TRUE ELSE DictHas(Tail(d), k)

RECURSIVE DictGet(_, _)
DictGet(d, k) ==
    IF Head(d)[1] = k THEN Head(d)[2] ELSE DictGet(Tail(d), k)

\* d[k] = v: an existing key keeps its place, a new key goes last
DictSet(d, k, v) ==
    IF DictHas(d, k)
    THEN [i \in 1..Len(d) |-> IF d[i][1] = k THEN <<k, v>> ELSE d[i]]
    ELSE Append(d, <<k, v>>)

RECURSIVE DictSum(_)
DictSum(d) == IF d = <<>> THEN 0 ELSE Head(d)[2] + DictSum(Tail(d))

\* ------------------------------------------------------------- text lines
Line(mn, qs, ang) == [mn |-> mn, qs |-> qs, ang |-> ang]

MeasureLine(loc) == Line("measure", <<loc>>, "")

IsMeasureLine(l) == l.mn = "measure"

\* 'version 1.0\n# generated by Quantum Inspire {0} class\nqubits {1}\n\n'
Header(n) ==
    << Line("version", <<>>, "1.0"),
       Line("# generated by", <<>>, "QIBackend"),
       Line("qubits", <<n>>, "") >>

\* --------------------------------------------------------------- commands
NoTag == -1

Cmd(gate, ctrl, qubits, angle, tag) ==
    [gate |-> gate, ctrl |-> ctrl, qubits |-> qubits, angle |-> angle, tag |-> tag]

get_control_count(cmd) == Len(cmd.ctrl)

Angles == {"0.5", "100.25"}

\* "{:.12f}".format(angle)
Fmt12f(a) == IF a = "0.5" THEN "0.500000000000" ELSE "100.250000000000"

\* "{:.12g}".format(angle)
Fmt12g(a) == IF a = "0.5" THEN "0.5" ELSE "100.25"

Rotations == {"Rx", "Ry", "Rz"}

\* the gates whose type is among type(X), type(Y), ..., type(Tdag)
PauliLike == {"X", "Y", "Z", "H", "S", "Sdag", "T", "Tdag"}

\* _gate_names without the entry of Sdag
gate_names_tdag == [g \in {"Tdag"} |-> g]

\* QIBackend._gate_names, keyed by the gate
gate_names == [g \in {"Tdag", "Sdag"} |-> g]

\* str(gate).lower()
Lower(g) ==
    CASE g = "X" -> "x" [] g = "Y" -> "y" [] g = "Z" -> "z" [] g = "H" -> "h"
      [] g = "S" -> "s" [] g = "T" -> "t"
      [] g = "Sdag" -> "s^\\dagger" [] g = "Tdag" -> "t^\\dagger"

Out(err, lines, mids) == [err |-> err, lines |-> lines, mids |-> mids]

\* Translate with the CR line naming the target first
TranslateTargetFirst(cmd) ==
    LET gate == cmd.gate
        count == get_control_count(cmd)
    IN
    IF gate = "Measure" THEN
        IF Len(cmd.qubits) # 1 \/ cmd.tag = NoTag
        THEN Out("AssertionError", <<>>, <<>>)
        ELSE Out("none", <<>>, <<cmd.tag>>)
    ELSE IF gate = "X" /\ count = 1 THEN
        Out("none", <<Line("CNOT", <<cmd.ctrl[1], cmd.qubits[1]>>, "")>>, <<>>)
    ELSE IF gate = "Swap" THEN
        Out("none", <<Line("swap", <<cmd.qubits[1], cmd.qubits[2]>>, "")>>, <<>>)
    ELSE IF gate = "X" /\ count = 2 THEN
        Out("none",
            <<Line("Toffoli", <<cmd.ctrl[1], cmd.ctrl[2], cmd.qubits[1]>>, "")>>, <<>>)
    ELSE IF gate = "Z" /\ count = 1 THEN
        Out("none", <<Line("CZ", <<cmd.ctrl[1], cmd.qubits[1]>>, "")>>, <<>>)
    ELSE IF gate = "Barrier" THEN
        Out("none", <<Line("# barrier gate", cmd.qubits, ";")>>, <<>>)
    ELSE IF gate = "Rz" /\ count = 1 THEN
        Out("none",
            <<Line("CR", <<cmd.qubits[1], cmd.ctrl[1]>>, Fmt12f(cmd.angle))>>, <<>>)
    ELSE IF gate \in {"Rx", "Ry"} /\ count = 1 THEN
        Out("NotImplementedError", <<>>, <<>>)
    ELSE IF gate \in Rotations THEN
        IF count # 0
        THEN Out("AssertionError", <<>>, <<>>)
        ELSE Out("none", <<Line(gate, <<cmd.qubits[1]>>, Fmt12g(cmd.angle))>>, <<>>)
    ELSE IF gate = "Tdag" /\ count = 0 THEN
        Out("none", <<Line("Tdag", <<cmd.qubits[1]>>, "")>>, <<>>)
    ELSE IF gate \in PauliLike THEN
        IF count # 0
        THEN Out("AssertionError", <<>>, <<>>)
        ELSE LET gate_str == IF gate \in DOMAIN gate_names
                             THEN gate_names[gate] ELSE Lower(gate)
             IN Out("none", <<Line(gate_str, <<cmd.qubits[1]>>, "")>>, <<>>)
    ELSE Out("NotImplementedError", <<>>, <<>>)

\* _store, lines 140-199: the translation of one command that is neither
\* Allocate nor Deallocate.  err is the exception raised ("none" when the
\* branch returns), lines what is appended to self.qasm, mids what is
\* appended to self._measured_ids.
Translate(cmd) ==
    LET gate == cmd.gate
        count == get_control_count(cmd)
    IN
    IF gate = "Measure" THEN
        IF Len(cmd.qubits) # 1 \/ cmd.tag = NoTag
        THEN Out("AssertionError", <<>>, <<>>)
        ELSE Out("none", <<>>, <<cmd.tag>>)
    ELSE IF gate = "X" /\ count = 1 THEN
        Out("none", <<Line("CNOT", <<cmd.ctrl[1], cmd.qubits[1]>>, "")>>, <<>>)
    ELSE IF gate = "Swap" THEN
        Out("none", <<Line("swap", <<cmd.qubits[1], cmd.qubits[2]>>, "")>>, <<>>)
    ELSE IF gate = "X" /\ count = 2 THEN
        Out("none",
            <<Line("Toffoli", <<cmd.ctrl[1], cmd.ctrl[2], cmd.qubits[1]>>, "")>>, <<>>)
    ELSE IF gate = "Z" /\ count = 1 THEN
        Out("none", <<Line("CZ", <<cmd.ctrl[1], cmd.qubits[1]>>, "")>>, <<>>)
    ELSE IF gate = "Barrier" THEN
        Out("none", <<Line("# barrier gate", cmd.qubits, ";")>>, <<>>)
    ELSE IF gate = "Rz" /\ count = 1 THEN
        Out("none",
            <<Line("CR", <<cmd.ctrl[1], cmd.qubits[1]>>, Fmt12f(cmd.angle))>>, <<>>)
    ELSE IF gate \in {"Rx", "Ry"} /\ count = 1 THEN
        Out("NotImplementedError", <<>>, <<>>)
    ELSE IF gate \in Rotations THEN
        IF count # 0
        THEN Out("AssertionError", <<>>, <<>>)
        ELSE Out("none", <<Line(gate, <<cmd.qubits[1]>>, Fmt12g(cmd.angle))>>, <<>>)
    ELSE IF gate = "Tdag" /\ count = 0 THEN
        Out("none", <<Line("Tdag", <<cmd.qubits[1]>>, "")>>, <<>>)
    ELSE IF gate \in PauliLike THEN
        IF count # 0
        THEN Out("AssertionError", <<>>, <<>>)
        ELSE LET gate_str == IF gate \in DOMAIN gate_names
                             THEN gate_names[gate] ELSE Lower(gate)
             IN Out("none", <<Line(gate_str, <<cmd.qubits[1]>>, "")>>, <<>>)
    ELSE Out("NotImplementedError", <<>>, <<>>)

Max(a, b) == IF a >= b THEN a ELSE b

NoDraw == [num |-> -1, den |-> 1]

\* the record of a call: the exception it raised, whether it called
\* execute_qasm, the measurement results it handed to set_measurement_result,
\* the sampled string, and the histogram and the draw it worked on
Did(op, err, called, written, measured, hist, P) ==
    [op |-> op, err |-> err, called |-> called, written |-> written,
     measured |-> measured, hist |-> hist, P |-> P]

DidStore(err) == Did("store", err, FALSE, <<>>, <<>>, <<>>, NoDraw)

\* Store with a new line put in front of the buffer
StoreInFront(cmd) ==
    LET qasm0 == IF clear THEN <<>> ELSE qasm
        alloc0 == IF clear THEN {} ELSE allocated_qubits
        probs0 == IF clear THEN <<>> ELSE probabilities
        out == Translate(cmd)
    IN
    /\ clear' = FALSE
    /\ probabilities' = probs0
    /\ ran' = FALSE
    /\ UNCHANGED <<cqasm, perform_execution, mapping>>
    /\ IF cmd.gate = "Allocate" THEN
            /\ allocated_qubits' = alloc0 \cup {cmd.qubits[1]}
            /\ max_qubit_id' = Max(max_qubit_id, cmd.qubits[1])
            /\ qasm' = qasm0
            /\ UNCHANGED <<measured_ids, emitted>>
            /\ since' = since \cup {cmd.qubits[1]}
            /\ last' = DidStore("none")
       ELSE IF cmd.gate = "Deallocate" THEN
            /\ allocated_qubits' = alloc0 \ {cmd.qubits[1]}
            /\ qasm' = qasm0
            /\ UNCHANGED <<max_qubit_id, measured_ids, since, emitted>>
            /\ last' = DidStore("none")
       ELSE /\ Len(qasm0) + Len(out.lines) + Len(measured_ids) + Len(out.mids)
                    <= MaxLines
            /\ allocated_qubits' = alloc0
            /\ qasm' = out.lines \o qasm0
            /\ measured_ids' = measured_ids \o out.mids
            /\ UNCHANGED <<max_qubit_id, since>>
            /\ emitted' = (emitted \/ out.lines # <<>>)
            /\ last' = DidStore(out.err)

\* _store(cmd)
Store(cmd) ==
    LET qasm0 == IF clear THEN <<>> ELSE qasm
        alloc0 == IF clear THEN {} ELSE allocated_qubits
        probs0 == IF clear THEN <<>> ELSE probabilities
        out == Translate(cmd)
    IN
    /\ clear' = FALSE
    /\ probabilities' = probs0
    /\ ran' = FALSE
    /\ UNCHANGED <<cqasm, perform_execution, mapping>>
    /\ IF cmd.gate = "Allocate" THEN
            /\ allocated_qubits' = alloc0 \cup {cmd.qubits[1]}
            /\ max_qubit_id' = Max(max_qubit_id, cmd.qubits[1])
            /\ qasm' = qasm0
            /\ UNCHANGED <<measured_ids, emitted>>
            /\ since' = since \cup {cmd.qubits[1]}
            /\ last' = DidStore("none")
       ELSE IF cmd.gate = "Deallocate" THEN
            /\ allocated_qubits' = alloc0 \ {cmd.qubits[1]}
            /\ qasm' = qasm0
            /\ UNCHANGED <<max_qubit_id, measured_ids, since, emitted>>
            /\ last' = DidStore("none")
       ELSE /\ Len(qasm0) + Len(out.lines) + Len(measured_ids) + Len(out.mids)
                    <= MaxLines
            /\ allocated_qubits' = alloc0
            /\ qasm' = qasm0 \o out.lines
            /\ measured_ids' = measured_ids \o out.mids
            /\ UNCHANGED <<max_qubit_id, since>>
            /\ emitted' = (emitted \/ out.lines # <<>>)
            /\ last' = DidStore(out.err)

\* ------------------------------------------------------------- histograms
R(n, d) == [num |-> n, den |-> d]

Digit(b) == IF b = 0 THEN "0" ELSE "1"

\* int(c) for a character of a bit string
IntOfChar(c) == IF c = "0" THEN 0 ELSE 1

\* "{:b}".format(v): most significant bit first, no padding
RECURSIVE Bin(_)
Bin(v) == IF v < 2 THEN <<Digit(v)>> ELSE Append(Bin(v \div 2), Digit(v % 2))

\* ("{:0%db}" % n).format(v): zero-padded on the left to at least n characters
ZeroPad(s, n) == IF Len(s) >= n THEN s ELSE [i \in 1..(n - Len(s)) |-> "0"] \o s

\* int(number_of_runs * value), value >= 0
IntTimes(number_of_runs, value) == (number_of_runs * value.num) \div value.den

RECURSIVE FormatFrom(_, _, _, _)
FormatFrom(items, number_of_qubits, number_of_runs, histogram) ==
    IF items = <<>> THEN histogram
    ELSE LET register == Head(items)[1]
             byte_value == ZeroPad(Bin(register), number_of_qubits)
             value == IntTimes(number_of_runs, Head(items)[2])
         IN FormatFrom(Tail(items), number_of_qubits, number_of_runs,
                       DictSet(histogram, byte_value, value))

\* format_histogram with number_of_runs given, as _run calls it; a register
\* key is held as the integer int(register)
format_histogram(histogram_input, number_of_qubits, number_of_runs) ==
    FormatFrom(histogram_input, number_of_qubits, number_of_runs, <<>>)

\* the string left in the order format_histogram gives it
Unreversed(s) == s

Reverse(s) == [i \in 1..Len(s) |-> s[Len(s) + 1 - i]]

\* p_sum >= P, with p_sum = p_count / num_runs
Reaches(p_count, P) == p_count * P.den >= P.num * NumRuns

RECURSIVE CalcFrom(_, _, _, _, _)
CalcFrom(counts, P, p_count, measured, probs) ==
    IF counts = <<>> THEN [measured |-> measured, probs |-> probs]
    ELSE LET probability == Head(counts)[2]
             state == Reverse(Head(counts)[1])
             sum == p_count + probability
             hit == Reaches(sum, P) /\ measured = <<>>
         IN CalcFrom(Tail(counts), P, sum,
                     IF hit THEN state ELSE measured,
                     DictSet(probs, state, probability))

\* _calculate_probabilities(counts) with the draw P = random.random():
\* the string it returns and self._probabilities after it
_calculate_probabilities(counts, P, probs) == CalcFrom(counts, P, 0, <<>>, probs)

\* what execute_qasm may return: a result without a histogram, with an empty
\* one, and with histograms of fractional weights or of raw counts
ApiResults ==
    { [raw_text |-> "error"],
      [histogram |-> <<>>],
      [histogram |-> << <<0, R(1, 2)>>, <<3, R(1, 2)>> >>],
      [histogram |-> << <<2, R(1, 1)>> >>],
      [histogram |-> << <<0, R(0, 1)>>, <<1, R(1, 1)>> >>],
      [histogram |-> << <<0, R(1, 8)>>, <<1, R(1, 8)>>, <<2, R(3, 8)>>, <<3, R(3, 8)>> >>],
      [histogram |-> << <<0, R(2, 1)>>, <<3, R(2, 1)>> >>] }

\* result.get('histogram', {})
HistogramOf(res) == IF "histogram" \in DOMAIN res THEN res.histogram ELSE <<>>

\* random.random() is in [0, 1)
Draws == {R(0, 1), R(1, 4), R(1, 2), R(3, 4)}

\* current mappings the host may hold
Mappings ==
    { (0 :> 0) @@ (1 :> 1),
      (0 :> 0) @@ (1 :> 0),
      (0 :> 1) }

\* ------------------------------------------------------------------ flush
\* _reset()
_reset ==
    /\ allocated_qubits' = {}
    /\ measured_ids' = <<>>
    /\ max_qubit_id' = -1
    /\ clear' = TRUE
    /\ qasm' = <<>>

Least(S) == CHOOSE x \in S : \A y \in S : x <= y

\* _run, lines 309-311: "\nmeasure q[{}] " for the first n measured ids
MeasureLines(ids, m, n) == [i \in 1..n |-> MeasureLine(m[ids[i]])]

\* Results with the logical id used as the index into the sampled string
ResultsById(measured, ids, m, n) ==
    [i \in 1..n |-> <<ids[i], IntOfChar(measured[ids[i] + 1])>>]

\* _run, lines 352-356: the first n calls of set_measurement_result, each
\* <<ID, int(measured[location])>>
Results(measured, ids, m, n) ==
    [i \in 1..n |-> <<ids[i], IntOfChar(measured[m[ids[i]] + 1])>>]

DidFlush(err, called, written, measured, hist, P) ==
    Did("flush", err, called, written, measured, hist, P)

\* _run() when the buffer holds text and every measured id is mapped
Execute(qasm1) ==
    IF ~perform_execution THEN
        \* the early return of line 338, then receive's _reset()
        /\ _reset
        /\ UNCHANGED <<probabilities, ran>>
        /\ last' = DidFlush("none", FALSE, <<>>, <<>>, <<>>, NoDraw)
    ELSE \E res \in ApiResults :
        LET hist == HistogramOf(res) IN
        IF Len(hist) = 0 THEN
            /\ qasm' = qasm1
            /\ UNCHANGED <<allocated_qubits, measured_ids, max_qubit_id, clear,
                           probabilities, ran>>
            /\ last' = DidFlush("ProjectQBackendError", TRUE, <<>>, <<>>, hist, NoDraw)
        ELSE \E P \in Draws :
            LET counts == format_histogram(hist, NQubits, NumRuns)
                calc == _calculate_probabilities(counts, P, probabilities)
                measured == calc.measured
                short == {i \in 1..Len(measured_ids) :
                              mapping[measured_ids[i]] >= Len(measured)}
            IN
            /\ probabilities' = calc.probs
            /\ IF short # {} THEN
                    \* measured[location] raises IndexError
                    /\ qasm' = qasm1
                    /\ UNCHANGED <<allocated_qubits, measured_ids, max_qubit_id,
                                   clear, ran>>
                    /\ last' = DidFlush("IndexError", TRUE,
                                        Results(measured, measured_ids, mapping,
                                                Least(short) - 1),
                                        measured, hist, P)
               ELSE /\ _reset
                    /\ ran' = TRUE
                    /\ last' = DidFlush("none", TRUE,
                                        Results(measured, measured_ids, mapping,
                                                Len(measured_ids)),
                                        measured, hist, P)

\* Flush with the program kept only when it is executed
FlushExecOnly ==
    /\ UNCHANGED <<perform_execution, mapping>>
    /\ IF qasm = <<>> THEN
            /\ _reset
            /\ UNCHANGED <<cqasm, probabilities, ran>>
            /\ last' = DidFlush("none", FALSE, <<>>, <<>>, <<>>, NoDraw)
       ELSE
            /\ Len(qasm) + Len(measured_ids) <= MaxLines
            /\ LET unmapped == {i \in 1..Len(measured_ids) :
                                    measured_ids[i] \notin DOMAIN mapping}
               IN
               IF unmapped # {} THEN
                    /\ qasm' = qasm \o MeasureLines(measured_ids, mapping,
                                                    Least(unmapped) - 1)
                    /\ UNCHANGED <<allocated_qubits, measured_ids, max_qubit_id,
                                   clear, cqasm, probabilities, ran>>
                    /\ last' = DidFlush("KeyError", FALSE, <<>>, <<>>, <<>>, NoDraw)
               ELSE LET qasm1 == qasm \o MeasureLines(measured_ids, mapping,
                                                      Len(measured_ids))
                    IN /\ cqasm' = IF perform_execution
                                   THEN Header(max_qubit_id + 1) \o qasm1
                                   ELSE cqasm
                       /\ Execute(qasm1)
    /\ since' = {}
    /\ emitted' = FALSE

\* receive() of a FlushGate: _run(), then _reset() when _run returned
Flush ==
    /\ UNCHANGED <<perform_execution, mapping>>
    /\ IF qasm = <<>> THEN
            /\ _reset
            /\ UNCHANGED <<cqasm, probabilities, ran>>
            /\ last' = DidFlush("none", FALSE, <<>>, <<>>, <<>>, NoDraw)
       ELSE
            /\ Len(qasm) + Len(measured_ids) <= MaxLines
            /\ LET unmapped == {i \in 1..Len(measured_ids) :
                                    measured_ids[i] \notin DOMAIN mapping}
               IN
               IF unmapped # {} THEN
                    \* current_mapping[measured_id] raises KeyError
                    /\ qasm' = qasm \o MeasureLines(measured_ids, mapping,
                                                    Least(unmapped) - 1)
                    /\ UNCHANGED <<allocated_qubits, measured_ids, max_qubit_id,
                                   clear, cqasm, probabilities, ran>>
                    /\ last' = DidFlush("KeyError", FALSE, <<>>, <<>>, <<>>, NoDraw)
               ELSE LET qasm1 == qasm \o MeasureLines(measured_ids, mapping,
                                                      Len(measured_ids))
                    IN /\ cqasm' = Header(max_qubit_id + 1) \o qasm1
                       /\ Execute(qasm1)
    /\ since' = {}
    /\ emitted' = FALSE

\* ------------------------------------------------------ get_probabilities
\* the exception of state[self._logical_to_physical(qb_id)], line 270:
\* RuntimeError of _logical_to_physical, IndexError of the indexing
CharErr(state, qb_id, m) ==
    IF qb_id \notin DOMAIN m THEN "RuntimeError"
    ELSE IF m[qb_id] >= Len(state) THEN "IndexError"
    ELSE "none"

\* MappedState with the register filled from its end
MappedStateBackwards(state, qureg, m) ==
    LET failed == {i \in 1..Len(qureg) : CharErr(state, qureg[i], m) # "none"}
    IN IF failed # {}
       THEN [err |-> CharErr(state, qureg[Least(failed)], m), str |-> <<>>]
       ELSE [err |-> "none",
             str |-> [i \in 1..Len(qureg) |->
                         state[m[qureg[Len(qureg) + 1 - i]] + 1]]]

\* lines 268-270 for one state: the mapped string, or the first exception
MappedState(state, qureg, m) ==
    LET failed == {i \in 1..Len(qureg) : CharErr(state, qureg[i], m) # "none"}
    IN IF failed # {}
       THEN [err |-> CharErr(state, qureg[Least(failed)], m), str |-> <<>>]
       ELSE [err |-> "none",
             str |-> [i \in 1..Len(qureg) |-> state[m[qureg[i]] + 1]]]

RECURSIVE ProjectFrom(_, _, _, _)
ProjectFrom(probs, qureg, m, probability_dict) ==
    IF probs = <<>> THEN [err |-> "none", result |-> probability_dict]
    ELSE LET mapped_state == MappedState(Head(probs)[1], qureg, m) IN
         IF mapped_state.err # "none"
         THEN [err |-> mapped_state.err, result |-> <<>>]
         ELSE ProjectFrom(Tail(probs), qureg, m,
                          DictSet(probability_dict, mapped_state.str, Head(probs)[2]))

\* get_probabilities(qureg) as a function of the state it reads
get_probabilities(probs, qureg, m) ==
    IF Len(probs) = 0 THEN [err |-> "RuntimeError", result |-> <<>>]
    ELSE ProjectFrom(probs, qureg, m, <<>>)

Quregs == {<<>>} \cup {<<a>> : a \in Ids} \cup {<<a, b>> : a, b \in Ids}

\* a call of get_probabilities: it reads the state and changes none of it
GetProbabilities(qureg) ==
    /\ qureg \in Quregs
    /\ UNCHANGED vars

\* the host framework replaces the current mapping between two calls
Remap ==
    /\ mapping' \in Mappings \ {mapping}
    /\ UNCHANGED <<allocated_qubits, measured_ids, max_qubit_id, clear, qasm, cqasm,
                   probabilities, perform_execution, ran, since, emitted, last,
                   call, stream, simulator>>

\* ------------------------------------------------------------ the machine
\* the commands the stream is drawn from
StreamCmds ==
    {Cmd("Allocate", <<>>, <<q>>, "", NoTag) : q \in Ids}
    \cup {Cmd("Deallocate", <<>>, <<q>>, "", NoTag) : q \in Ids}
    \cup {Cmd("Measure", <<>>, <<q>>, "", q) : q \in Ids}
    \cup {Cmd("H", <<>>, <<q>>, "", NoTag) : q \in {0}}

\* a call with its argument, whether it has returned, and what it returned
Call(op, arg, done, ret) == [op |-> op, arg |-> arg, done |-> done, ret |-> ret]

NoCall == Call("none", <<>>, TRUE, "None")

\* a call about to be made
Pending(op, arg) == Call(op, arg, FALSE, "None")

Stream(lines, mids, fresh) == [lines |-> lines, mids |-> mids, fresh |-> fresh]

\* QiSimulatorPy.__init__
NewSimulator ==
    [number_of_shots |-> "None", compiled_qasm |-> "None",
     execution_results |-> "None"]

\* __init__
New ==
    /\ allocated_qubits = {}
    /\ measured_ids = <<>>
    /\ max_qubit_id = -1
    /\ clear = TRUE
    /\ qasm = <<>>
    /\ cqasm = <<>>
    /\ probabilities = <<>>
    /\ perform_execution \in BOOLEAN
    /\ mapping \in Mappings
    /\ ran = FALSE
    /\ since = {}
    /\ emitted = FALSE
    /\ last = Did("init", "none", FALSE, <<>>, <<>>, <<>>, NoDraw)
    /\ stream = Stream(<<>>, <<>>, TRUE)
    /\ simulator = NewSimulator

Init == New /\ call = NoCall

\* receive([cmd]) of a command that is not a flush
Receive(cmd) ==
    /\ Store(cmd)
    /\ stream' = IF cmd.gate \in {"Allocate", "Deallocate"} THEN stream
                 ELSE Stream(stream.lines \o Translate(cmd).lines,
                             stream.mids \o Translate(cmd).mids, stream.fresh)
    /\ UNCHANGED <<call, simulator>>

\* receive([FlushGate])
ReceiveFlush ==
    /\ Flush
    /\ stream' = Stream(<<>>, <<>>, last'.err = "none")
    /\ UNCHANGED <<call, simulator>>

StoreStep == \E cmd \in StreamCmds : Receive(cmd)

GetStep == \E qureg \in Quregs : GetProbabilities(qureg)

Next == StoreStep \/ ReceiveFlush \/ GetStep

Spec == Init /\ [][Next]_vars

\* A circuit that applied H to qubit 0 and measured up to MaxLines - 1 qubits
\* waits for its flush: the states after Allocate of every id, H and the
\* Measure commands.  From there the flush runs, under every mapping.
RunInit ==
    /\ allocated_qubits = Ids
    /\ measured_ids \in UNION {[1..n -> Ids] : n \in 0..(MaxLines - 1)}
    /\ max_qubit_id = MaxId
    /\ clear = FALSE
    /\ qasm = Translate(Cmd("H", <<>>, <<0>>, "", NoTag)).lines
    /\ cqasm = <<>>
    /\ probabilities = <<>>
    /\ perform_execution = TRUE
    /\ mapping \in Mappings
    /\ ran = FALSE
    /\ since = Ids
    /\ emitted = TRUE
    /\ last = DidStore("none")
    /\ call = NoCall
    /\ stream = Stream(qasm, measured_ids, TRUE)
    /\ simulator = NewSimulator

RunNext == ReceiveFlush \/ GetStep \/ Remap

SpecRun == RunInit /\ [][RunNext]_vars

\* The stream of a circuit on qubits the host allocated before: gate and
\* Measure commands and flushes, with and without execution.
TextCmds ==
    {Cmd("Measure", <<>>, <<q>>, "", q) : q \in Ids}
    \cup {Cmd("H", <<>>, <<q>>, "", NoTag) : q \in {0}}

TextStep == \E cmd \in TextCmds : Receive(cmd)

TextNext == TextStep \/ ReceiveFlush

SpecText == Init /\ [][TextNext]_vars

\* The stream of circuits on qubit 0 that allocate and free it themselves,
\* each of at most MaxStream gate and Measure commands.
LedgerCmds ==
    {Cmd(gate, <<>>, <<0>>, "", NoTag) :
         gate \in {"Allocate", "Deallocate", "H", "X"}}
    \cup {Cmd("Measure", <<>>, <<0>>, "", 0)}

LedgerStep ==
    /\ Len(stream.lines) + Len(stream.mids) < MaxStream
    /\ \E cmd \in LedgerCmds : Receive(cmd)

LedgerNext == LedgerStep \/ ReceiveFlush

\* a new backend under the mapping of every id to the slot of its number
LedgerInit == Init /\ mapping = [q \in 0..1 |-> q]

SpecLedger == LedgerInit /\ [][LedgerNext]_vars

\* ---------------------------------------------------------- single calls
\* the gates of projectq.ops the backend imports (NOT is X)
Gates ==
    PauliLike \cup Rotations
    \cup {"Ph", "Swap", "Barrier", "Measure", "Allocate", "Deallocate"}

CtrlLists == UNION {[1..n -> Ids] : n \in 0..MaxCtrl}

\* the qubit registers a command of the gate may carry
QubitsOf(gate) ==
    IF gate = "Swap" THEN {<<a, b>> : a, b \in Ids}
    ELSE IF gate = "Barrier" THEN {<<a>> : a \in Ids} \cup {<<a, b>> : a, b \in Ids}
    ELSE {<<a>> : a \in Ids}

\* every command a host may hand to the backend
AllCmds ==
    UNION {
      {Cmd(gate, ctrl, qubits, angle, tag) :
          ctrl \in CtrlLists,
          qubits \in QubitsOf(gate),
          angle \in IF gate \in Rotations THEN Angles ELSE {""},
          tag \in IF gate = "Measure" THEN Ids \cup {NoTag} ELSE {NoTag}}
      : gate \in Gates}

\* is_available with count <= 1 where the code has count <= 2
is_available_one(cmd) ==
    LET count == get_control_count(cmd)
        g == cmd.gate
    IN
    IF g = "X" /\ count <= 1 THEN TRUE
    ELSE IF g = "Z" /\ count <= 1 THEN TRUE
    ELSE IF g \in {"Measure", "Allocate", "Deallocate", "Barrier"} THEN TRUE
    ELSE IF count # 0 THEN FALSE
    ELSE IF g \in {"T", "Tdag", "S", "Sdag", "H", "X", "Y", "Z"} THEN TRUE
    ELSE IF g \in Rotations THEN TRUE
    ELSE IF g = "Ph" THEN FALSE
    ELSE FALSE

\* is_available with count <= 2 for Z as for NOT
is_available_z2(cmd) ==
    LET count == get_control_count(cmd)
        g == cmd.gate
    IN
    IF g = "X" /\ count <= 2 THEN TRUE
    ELSE IF g = "Z" /\ count <= 2 THEN TRUE
    ELSE IF g \in {"Measure", "Allocate", "Deallocate", "Barrier"} THEN TRUE
    ELSE IF count # 0 THEN FALSE
    ELSE IF g \in {"T", "Tdag", "S", "Sdag", "H", "X", "Y", "Z"} THEN TRUE
    ELSE IF g \in Rotations THEN TRUE
    ELSE IF g = "Ph" THEN FALSE
    ELSE FALSE

\* is_available(cmd)
is_available(cmd) ==
    LET count == get_control_count(cmd)
        g == cmd.gate
    IN
    IF g = "X" /\ count <= 2 THEN TRUE
    ELSE IF g = "Z" /\ count <= 1 THEN TRUE
    ELSE IF g \in {"Measure", "Allocate", "Deallocate", "Barrier"} THEN TRUE
    ELSE IF count # 0 THEN FALSE
    ELSE IF g \in {"T", "Tdag", "S", "Sdag", "H", "X", "Y", "Z"} THEN TRUE
    ELSE IF g \in Rotations THEN TRUE
    ELSE IF g = "Ph" THEN FALSE
    ELSE FALSE

\* the fields of the backend and the histories of the stream, which a call
\* that only reads leaves alone
backend ==
    <<allocated_qubits, measured_ids, max_qubit_id, clear, qasm, cqasm,
      probabilities, perform_execution, mapping, ran, since, emitted, last,
      stream, simulator>>

\* a call of is_available: it returns and changes nothing
IsAvailable ==
    /\ call.op = "is_available" /\ ~call.done
    /\ call' = Call(call.op, call.arg, TRUE, is_available(call.arg))
    /\ UNCHANGED backend

\* a new backend about to be asked about one command
AvailInit ==
    /\ New
    /\ \E cmd \in AllCmds : call = Pending("is_available", cmd)

SpecAvail == AvailInit /\ [][IsAvailable]_vars

\* a backend that has stored Allocate | q0 and H | q0
Accumulating ==
    /\ allocated_qubits = {0}
    /\ measured_ids = <<>>
    /\ max_qubit_id = 0
    /\ clear = FALSE
    /\ qasm = Translate(Cmd("H", <<>>, <<0>>, "", NoTag)).lines
    /\ cqasm = <<>>
    /\ probabilities = <<>>
    /\ perform_execution \in BOOLEAN
    /\ mapping \in Mappings
    /\ ran = FALSE
    /\ since = {0}
    /\ emitted = TRUE
    /\ last = DidStore("none")
    /\ stream = Stream(qasm, <<>>, TRUE)
    /\ simulator = NewSimulator

\* receive([cmd]) of the one command under examination
StoreCall ==
    /\ call.op = "store" /\ ~call.done
    /\ Store(call.arg)
    /\ call' = Call(call.op, call.arg, TRUE, last'.err)
    /\ stream' = IF call.arg.gate \in {"Allocate", "Deallocate"} THEN stream
                 ELSE Stream(stream.lines \o Translate(call.arg).lines,
                             stream.mids \o Translate(call.arg).mids, stream.fresh)
    /\ UNCHANGED simulator

\* a new or an accumulating backend about to receive one command
TranslateInit ==
    /\ New \/ Accumulating
    /\ \E cmd \in AllCmds : call = Pending("store", cmd)

SpecTranslate == TranslateInit /\ [][StoreCall]_vars

\* the command is_available has just accepted
Accepted == call.op = "is_available" /\ call.done /\ call.ret = TRUE

\* receive([cmd]) of the command is_available has accepted
StoreAccepted ==
    /\ Accepted
    /\ Store(call.arg)
    /\ call' = Call("store", call.arg, TRUE, last'.err)
    /\ stream' = IF call.arg.gate \in {"Allocate", "Deallocate"} THEN stream
                 ELSE Stream(stream.lines \o Translate(call.arg).lines,
                             stream.mids \o Translate(call.arg).mids, stream.fresh)
    /\ UNCHANGED simulator

AcceptNext == IsAvailable \/ StoreAccepted

\* a new or an accumulating backend about to be asked about one command
AcceptInit ==
    /\ New \/ Accumulating
    /\ \E cmd \in AllCmds : call = Pending("is_available", cmd)

SpecAccept == AcceptInit /\ [][AcceptNext]_vars

\* a backend whose run of H | q0 on a histogram of ApiResults has returned
HasRun ==
    /\ allocated_qubits = {}
    /\ measured_ids = <<>>
    /\ max_qubit_id = -1
    /\ clear = TRUE
    /\ qasm = <<>>
    /\ cqasm = Header(1) \o Translate(Cmd("H", <<>>, <<0>>, "", NoTag)).lines
    /\ perform_execution = TRUE
    /\ mapping \in Mappings
    /\ ran = TRUE
    /\ since = {}
    /\ emitted = FALSE
    /\ \E res \in ApiResults, P \in Draws :
          LET hist == HistogramOf(res)
              calc == _calculate_probabilities(
                          format_histogram(hist, NQubits, NumRuns), P, <<>>)
          IN /\ Len(hist) # 0
             /\ probabilities = calc.probs
             /\ last = DidFlush("none", TRUE, <<>>, calc.measured, hist, P)
    /\ stream = Stream(<<>>, <<>>, TRUE)
    /\ simulator = NewSimulator

\* the call of get_probabilities under examination: it reads the state and
\* returns the projected mapping or raises
GetCall ==
    /\ call.op = "get_probabilities" /\ ~call.done
    /\ call' = Call(call.op, call.arg, TRUE,
                    get_probabilities(probabilities, call.arg, mapping))
    /\ UNCHANGED backend

\* a new backend, or one that has run, about to be read
ProjectInit ==
    /\ New \/ HasRun
    /\ \E qureg \in Quregs : call = Pending("get_probabilities", qureg)

SpecProject == ProjectInit /\ [][GetCall]_vars

\* --------------------------------------------------------- QiSimulatorPy
\* a compiled circuit without operations on 1..NQubits qubits (the lines of
\* operations come from CircuitToString, which is not part of the module)
Circuits ==
    {[name |-> "circuit", number_of_qubits |-> n, operations |-> <<>>] :
         n \in 1..NQubits}

Jobs ==
    {[shots |-> shots, circuits |-> circuits] :
         shots \in 0..MaxShots,
         circuits \in UNION {[1..n -> Circuits] : n \in 1..MaxCircuits}}

\* _generate_cqasm(compiled_circuit) for a circuit without operations
_generate_cqasm(compiled_circuits) ==
    LET number_of_qubits == compiled_circuits.number_of_qubits IN
    << Line("version", <<>>, "1.0"),
       Line("# cqasm generated by", <<>>, "QI backend for QisKit"),
       Line("qubits", <<number_of_qubits>>, ""),
       Line(".measurement", <<>>, "") >>
    \o [i \in 1..number_of_qubits |-> MeasureLine(i - 1)]

\* what execute_qasm returns to the simulator: a histogram, empty or not
QiResults ==
    { [histogram |-> <<>>],
      [histogram |-> << <<0, R(1, 2)>>, <<3, R(1, 2)>> >>] }

\* __validate(quantum_object): the exception it raises
validate(quantum_object) ==
    IF quantum_object.shots = 1 THEN "QisKitBackendError" ELSE "none"

\* what a call of run did: the exception, the number of programs it
\* generated and the number of calls of execute_qasm it made
Ran(err, generated, executed) ==
    [err |-> err, generated |-> generated, executed |-> executed]

\* run(job): __validate, then _run_circuit for each circuit in turn, which
\* stops at the first result with an empty histogram
Run ==
    /\ call.op = "run" /\ ~call.done
    /\ UNCHANGED <<allocated_qubits, measured_ids, max_qubit_id, clear, qasm, cqasm,
                   probabilities, perform_execution, mapping, ran, since, emitted,
                   last, stream>>
    /\ LET job == call.arg
           n == Len(job.circuits)
       IN
       IF validate(job) # "none" THEN
            /\ call' = Call(call.op, job, TRUE, Ran(validate(job), 0, 0))
            /\ UNCHANGED simulator
       ELSE \E results \in [1..n -> QiResults] :
            LET empty == {k \in 1..n : Len(results[k].histogram) = 0}
                done == IF empty = {} THEN n ELSE Least(empty)
            IN
            /\ simulator' =
                  [number_of_shots |-> job.shots,
                   compiled_qasm |-> _generate_cqasm(job.circuits[done]),
                   execution_results |-> results[done]]
            /\ call' = Call(call.op, job, TRUE,
                            Ran(IF empty = {} THEN "none" ELSE "QisKitBackendError",
                                done, done))

\* a new simulator about to run one job
BatchInit ==
    /\ New
    /\ \E job \in Jobs : call = Pending("run", job)

SpecBatch == BatchInit /\ [][Run]_vars

\* ------------------------------------------------------------ properties
\* the body of a generated program: what follows the three header lines
Body(text) == SubSeq(text, 4, Len(text))

\* the N of the header's "qubits N"
Declared(text) == text[3].qs[1]

GateAfterMeasure(text) ==
    \E i, j \in 1..Len(text) :
        i < j /\ IsMeasureLine(text[i]) /\ ~IsMeasureLine(text[j])

\* the largest element, the sentinel -1 for the empty set
MaxOf(S) == IF S = {} THEN -1 ELSE CHOOSE x \in S : \A y \in S : y <= x

\* this step is a flush (of receive) that found text in the buffer
FlushOfText == last'.op = "flush" /\ mapping' = mapping /\ qasm # <<>>

\* this step is a flush that generated a program (it got past the mapping
\* of the measured ids)
Generated == FlushOfText /\ last'.err # "KeyError"

\* C1: in the program generated last, no gate or barrier line follows a
\* measurement line, whatever commands, flushes and failed flushes came before.
C1_MeasurementsLast == ~GateAfterMeasure(cqasm)

\* C2: after a flush that raised an error the translator is in the reset
\* condition: buffer empty, live set empty, maximum at the sentinel, measured
\* list empty, and the next command starts a new circuit.
C2_FailedFlushResets ==
    (last.op = "flush" /\ last.err # "none") =>
        /\ qasm = <<>>
        /\ allocated_qubits = {}
        /\ max_qubit_id = -1
        /\ measured_ids = <<>>
        /\ clear

\* the buffer holds gate lines only, all on ids allocated since the previous
\* flush, and every measured id was allocated since the previous flush
OnlyFresh ==
    /\ \A k \in 1..Len(qasm) :
          /\ ~IsMeasureLine(qasm[k])
          /\ \A i \in 1..Len(qasm[k].qs) : qasm[k].qs[i] \in since
    /\ \A i \in 1..Len(measured_ids) : measured_ids[i] \in since

IndicesBelow(text, n) ==
    \A k \in 4..Len(text) : \A i \in 1..Len(text[k].qs) : text[k].qs[i] < n

\* C3: a program generated from commands that name only ids allocated since
\* the previous flush declares more qubits than any index of its lines, gate
\* lines and measurement lines alike, under every mapping.
C3_DeclaredCoversIndices ==
    [][(Generated /\ OnlyFresh) => IndicesBelow(cqasm', Declared(cqasm'))]_vars

\* C4: the qubit count a generated program declares is 1 + the largest id
\* allocated since the previous flush.
C4_DeclaredIsMaxPlusOne ==
    [][(Generated /\ since # {}) => Declared(cqasm') = 1 + MaxOf(since)]_vars

\* the stored mapping is a probability distribution: each value count/num_runs
\* lies in [0, 1] and the values sum to 1
IsDistribution(probs) ==
    /\ \A i \in 1..Len(probs) : probs[i][2] >= 0 /\ probs[i][2] <= NumRuns
    /\ DictSum(probs) = NumRuns

RAdd(a, b) == R(a.num * b.den + b.num * a.den, a.den * b.den)

RECURSIVE RSum(_)
RSum(hist) == IF hist = <<>> THEN R(0, 1) ELSE RAdd(Head(hist)[2], RSum(Tail(hist)))

RECURSIVE IntSum(_)
IntSum(hist) ==
    IF hist = <<>> THEN 0 ELSE IntTimes(NumRuns, Head(hist)[2]) + IntSum(Tail(hist))

\* raw integer counts that sum to the shot count
RawCounts(hist) ==
    /\ \A i \in 1..Len(hist) : hist[i][2].den = 1
    /\ RSum(hist).num = NumRuns * RSum(hist).den

\* fractional weights that sum to 1 and whose integer counts sum to the shot count
Weights(hist) ==
    /\ RSum(hist).num = RSum(hist).den
    /\ IntSum(hist) = NumRuns

RunDone == last.op = "flush" /\ last.called /\ last.err = "none"

\* C5: after a successful run on a histogram of raw counts, or of weights that
\* sum to 1, the stored probabilities lie in [0, 1] and sum to 1.
C5_StoredIsDistribution ==
    (RunDone /\ (RawCounts(last.hist) \/ Weights(last.hist))) =>
        IsDistribution(probabilities)

\* the cumulative count of the first i entries
RECURSIVE Cumulative(_, _)
Cumulative(counts, i) == IF i = 0 THEN 0 ELSE counts[i][2] + Cumulative(counts, i - 1)

\* measured is the first entry, in iteration order, whose cumulative
\* probability reaches P
FirstReaching(counts, P, measured) ==
    \E i \in 1..Len(counts) :
        /\ Reverse(counts[i][1]) = measured
        /\ Reaches(Cumulative(counts, i), P)
        /\ \A j \in 1..(i - 1) : ~Reaches(Cumulative(counts, j), P)

\* C6: on a non-empty histogram whose probabilities sum to 1, for every draw P
\* in [0, 1), the sampler selects one outcome string; it is a key of the
\* probability mapping, its probability is not zero, and it is the first entry
\* whose cumulative probability reaches P.
C6_SampleHasMass ==
    (/\ last.op = "flush" /\ last.called /\ last.hist # <<>>
     /\ IsDistribution(format_histogram(last.hist, NQubits, NumRuns))) =>
        /\ last.measured # <<>>
        /\ DictHas(probabilities, last.measured)
        /\ DictGet(probabilities, last.measured) > 0
        /\ FirstReaching(format_histogram(last.hist, NQubits, NumRuns), last.P,
                         last.measured)

\* this step is a run that called the API and returned normally
RunSucceeds == FlushOfText /\ last'.called /\ last'.err = "none"

\* C7: a successful run writes one measurement result per entry of the
\* measured-id list, in order; each is the character of the one sampled string
\* at the physical slot of its id, so two ids on one slot get equal values.
C7_OneSharedSample ==
    [][RunSucceeds =>
        /\ Len(last'.written) = Len(measured_ids)
        /\ \A i \in 1..Len(measured_ids) :
              /\ last'.written[i][1] = measured_ids[i]
              /\ last'.written[i][2] =
                     IntOfChar(last'.measured[mapping[measured_ids[i]] + 1])
        /\ \A i, j \in 1..Len(measured_ids) :
              mapping[measured_ids[i]] = mapping[measured_ids[j]]
                  => last'.written[i][2] = last'.written[j][2]]_vars

\* a run has just written the results of two different ids that share a slot,
\* and of an id whose slot differs from the id
C7_Witness ==
    /\ RunDone
    /\ Len(last.written) >= 2
    /\ last.written[1][1] # last.written[2][1]
    /\ {last.written[1][1], last.written[2][1]} \subseteq DOMAIN mapping
    /\ mapping[last.written[1][1]] = mapping[last.written[2][1]]
    /\ last.measured[1] # last.measured[2]

\* get_probabilities on the empty register returns
Readable == get_probabilities(probabilities, <<>>, mapping).err = "none"

\* C8: get_probabilities succeeds exactly when an executed run has completed
\* successfully and no command other than a flush has been received since.
C8_ReadableIffRan == Readable <=> ran

\* C9: when the API returns no histogram or an empty one, the flush fails
\* with the backend-result error, writes no measurement result, and the
\* probability mapping is empty, so that get_probabilities fails; and the
\* flush that follows such a failure does not call the API again.
C9_EmptyHistogramLeavesNothing ==
    [][/\ (last'.op = "flush" /\ last'.called /\ last'.hist = <<>>) =>
            /\ last'.err = "ProjectQBackendError"
            /\ last'.written = <<>>
            /\ probabilities' = <<>>
            /\ get_probabilities(probabilities', <<>>, mapping').err # "none"
       /\ (/\ last.op = "flush" /\ last.called /\ last.hist = <<>>
           /\ last'.op = "flush") => ~last'.called]_vars

\* C10: a flush received when no command has appended a line since the
\* previous flush calls the API not at all, writes no measurement result and
\* leaves the program generated last as it was.
C10_IdleFlushDoesNothing ==
    [][(last'.op = "flush" /\ ~emitted) =>
        /\ ~last'.called
        /\ last'.written = <<>>
        /\ cqasm' = cqasm]_vars

\* text is a full program: the version line, the generator comment, the
\* qubit declaration, then the gate lines and one measurement line per
\* measured id, on the slot the mapping gives it
FullProgram(text, gates, ids, m) ==
    /\ Len(text) = 3 + Len(gates) + Len(ids)
    /\ text[1].mn = "version" /\ text[2].mn = "# generated by"
    /\ text[3].mn = "qubits"
    /\ SubSeq(text, 4, 3 + Len(gates)) = gates
    /\ \A i \in 1..Len(ids) :
          /\ ids[i] \in DOMAIN m
          /\ text[3 + Len(gates) + i] = MeasureLine(m[ids[i]])

\* a flush without execution calls nothing and writes nothing, and a step
\* that is not a flush of a non-empty buffer leaves the generated text alone
C11_Rest ==
    /\ (FlushOfText /\ ~perform_execution) =>
            (~last'.called /\ last'.written = <<>>)
    /\ ~FlushOfText => cqasm' = cqasm

\* C11 as stated: after every flush of a non-empty buffer cqasm() returns the
\* full program (header, gate lines, measurement lines), executed or not;
\* without execution nothing is called or written, and the text stays until
\* the next flush of a non-empty buffer.
C11_EveryFlushFreezes ==
    [][/\ FlushOfText =>
            FullProgram(cqasm', qasm, measured_ids, mapping)
       /\ C11_Rest]_vars

\* C11 amended: the same for every flush of a non-empty buffer whose measured
\* ids all have a physical slot; a flush that raises on an unmapped measured
\* id leaves the text generated before.
C11_MappedFlushFreezes ==
    [][/\ Generated =>
            FullProgram(cqasm', qasm, measured_ids, mapping)
       /\ (FlushOfText /\ ~Generated) => cqasm' = cqasm
       /\ C11_Rest]_vars

\* a flush without execution has just generated a program with a gate line
\* and a measurement line, called nothing and written nothing
C11_Witness ==
    /\ last.op = "flush" /\ ~perform_execution /\ ~last.called
    /\ last.written = <<>>
    /\ clear /\ stream.fresh
    /\ Len(cqasm) >= 5
    /\ ~IsMeasureLine(cqasm[4]) /\ IsMeasureLine(cqasm[Len(cqasm)])

\* the legality rules, read in priority order
Supported(gate_kind, control_count) ==
    IF gate_kind = "X" THEN control_count <= 2
    ELSE IF gate_kind = "Z" THEN control_count <= 1
    ELSE IF gate_kind \in {"Measure", "Allocate", "Deallocate", "Barrier"} THEN TRUE
    ELSE IF control_count > 0 THEN FALSE
    ELSE gate_kind \in {"Y", "H", "S", "Sdag", "T", "Tdag", "Rx", "Ry", "Rz"}

\* C12: is_available returns, for every gate kind and control count, what the
\* rules give in priority order, and the state after the call is the state
\* before it.
C12_AvailableAsRuled ==
    [][(call'.op = "is_available" /\ call'.done) =>
          /\ call'.ret = Supported(call.arg.gate, Len(call.arg.ctrl))
          /\ call'.arg = call.arg
          /\ backend' = backend]_vars

\* a call has answered yes for a doubly controlled X
C12_Witness ==
    /\ call.op = "is_available" /\ call.done
    /\ call.arg.gate = "X" /\ Len(call.arg.ctrl) = 2 /\ call.ret = TRUE

\* this step stores the command cmd of the call under examination
Stores == call.op = "store" /\ ~call.done /\ call'.done

\* the buffer the command is appended to: emptied first when the backend
\* was clear
Buffer0 == IF clear THEN <<>> ELSE qasm

\* C13: a rotation about X or Y with exactly one control fails with
\* NotImplementedError and appends nothing; a rotation about Z with exactly
\* one control appends exactly one CR line naming control, then target.
C13_ControlledRotations ==
    [][(Stores /\ Len(call.arg.ctrl) = 1) =>
          /\ call.arg.gate \in {"Rx", "Ry"} =>
                (call'.ret = "NotImplementedError" /\ qasm' = Buffer0)
          /\ call.arg.gate = "Rz" =>
                /\ call'.ret = "none"
                /\ Len(qasm') = Len(Buffer0) + 1
                /\ SubSeq(qasm', 1, Len(Buffer0)) = Buffer0
                /\ qasm'[Len(qasm')].mn = "CR"
                /\ qasm'[Len(qasm')].qs = <<call.arg.ctrl[1], call.arg.qubits[1]>>]_vars

\* a controlled Rz with control 1 and target 0 has been appended behind the
\* line the buffer held
C13_Witness ==
    /\ call.op = "store" /\ call.done /\ call.arg.gate = "Rz"
    /\ call.arg.ctrl = <<1>> /\ call.arg.qubits = <<0>>
    /\ Len(qasm) = 2 /\ qasm[2].mn = "CR"

\* the mnemonic of the override table, the lowercase name otherwise
Mnemonic(g) ==
    IF g = "Sdag" THEN "Sdag" ELSE IF g = "Tdag" THEN "Tdag"
    ELSE CASE g = "X" -> "x" [] g = "Y" -> "y" [] g = "Z" -> "z"
           [] g = "H" -> "h" [] g = "S" -> "s" [] g = "T" -> "t"

\* C14: an uncontrolled X, Y, Z, H, S, Sdag, T or Tdag appends exactly one
\* one-qubit line, with the mnemonic Sdag, Tdag or the lowercase name; the
\* lines of T and Tdag differ.
C14_Mnemonics ==
    [][(Stores /\ call.arg.gate \in {"X", "Y", "Z", "H", "S", "Sdag", "T", "Tdag"}
        /\ call.arg.ctrl = <<>>) =>
          /\ call'.ret = "none"
          /\ qasm' = Buffer0 \o
                 <<Line(Mnemonic(call.arg.gate), call.arg.qubits, "")>>
          /\ (call.arg.gate = "T") = (qasm'[Len(qasm')].mn = "t")]_vars

\* an uncontrolled Sdag has been appended as the line Sdag q[1]
C14_Witness ==
    /\ call.op = "store" /\ call.done /\ call.arg.gate = "Sdag"
    /\ call.arg.ctrl = <<>>
    /\ qasm # <<>> /\ qasm[Len(qasm)] = Line("Sdag", <<1>>, "")

\* the command matches one of the translation rules 1 to 13
MatchesRule(cmd) ==
    LET n == Len(cmd.ctrl) IN
    \/ cmd.gate \in {"Allocate", "Deallocate", "Measure", "Barrier"}
    \/ cmd.gate = "X" /\ n \in {1, 2}
    \/ cmd.gate = "Swap" /\ n = 0
    \/ cmd.gate = "Z" /\ n = 1
    \/ cmd.gate \in {"Rx", "Ry", "Rz"} /\ n \in {0, 1}
    \/ cmd.gate \in {"X", "Y", "Z", "H", "S", "Sdag", "T", "Tdag"} /\ n = 0

\* C17: a command that matches none of the rules 1 to 13 fails with
\* NotImplementedError and appends no line to the buffer.
C17_UnmatchedIsRejected ==
    [][(Stores /\ ~MatchesRule(call.arg)) =>
          (call'.ret = "NotImplementedError" /\ qasm' = Buffer0)]_vars

\* character i is the stored string's character at the slot of the i-th
\* requested id
Projected(state, qureg, m) == [i \in 1..Len(qureg) |-> state[m[qureg[i]] + 1]]

\* C15: get_probabilities returns, for every stored outcome string, the string
\* whose character i is the stored character at the physical slot of the i-th
\* requested id, with a probability stored for such an outcome; and for a
\* register of two, the reversed register gives the character-swapped strings
\* with the same probabilities.
C15_ProjectionOrder ==
    (call.op = "get_probabilities" /\ call.done /\ call.ret.err = "none") =>
        LET result == call.ret.result
            other == get_probabilities(probabilities, Reverse(call.arg), mapping)
        IN
        /\ \A k \in 1..Len(probabilities) :
              DictHas(result, Projected(probabilities[k][1], call.arg, mapping))
        /\ \A k \in 1..Len(result) : \E j \in 1..Len(probabilities) :
              /\ Projected(probabilities[j][1], call.arg, mapping) = result[k][1]
              /\ probabilities[j][2] = result[k][2]
        /\ Len(call.arg) = 2 =>
              /\ other.err = "none"
              /\ Len(other.result) = Len(result)
              /\ \A k \in 1..Len(result) :
                    /\ DictHas(other.result, Reverse(result[k][1]))
                    /\ DictGet(other.result, Reverse(result[k][1])) = result[k][2]

\* the register [q1, q0] has been read under the identity mapping from a
\* stored "01": the result holds "10" and not "01"
C15_Witness ==
    /\ call.op = "get_probabilities" /\ call.done /\ call.ret.err = "none"
    /\ call.arg = <<1, 0>> /\ mapping[0] = 0 /\ 1 \in DOMAIN mapping /\ mapping[1] = 1
    /\ DictHas(probabilities, <<"0", "1">>)
    /\ ~DictHas(probabilities, <<"1", "0">>)
    /\ DictHas(call.ret.result, <<"1", "0">>)
    /\ ~DictHas(call.ret.result, <<"0", "1">>)

\* C16: run accepts a job only when its shot count is greater than 1; a job
\* with another shot count fails before any program is generated and before
\* any call of execute_qasm.
C16_OnlyManyShots ==
    (call.op = "run" /\ call.done /\ call.arg.shots <= 1) =>
        /\ call.ret.err = "QisKitBackendError"
        /\ call.ret.generated = 0
        /\ call.ret.executed = 0
        /\ simulator.compiled_qasm = "None"
        /\ simulator.execution_results = "None"

\* C18: when the previous flush returned (or there was none), the gate part
\* of the program a flush generates is exactly the lines of the line-emitting
\* commands received since, in arrival order, with nothing added for
\* Allocate, Deallocate or Measure; and a flush that returns resets the
\* buffer, the live set, the maximum id and the measured-id list.
C18_OneLinePerCommand ==
    [][/\ (Generated /\ stream.fresh) =>
            /\ Len(cqasm') = 3 + Len(stream.lines) + Len(stream.mids)
            /\ SubSeq(cqasm', 4, 3 + Len(stream.lines)) = stream.lines
            /\ \A k \in 1..Len(stream.lines) : ~IsMeasureLine(stream.lines[k])
       /\ (last'.op = "flush" /\ last'.err = "none") =>
            /\ qasm' = <<>>
            /\ allocated_qubits' = {}
            /\ max_qubit_id' = -1
            /\ measured_ids' = <<>>]_vars

\* a flush has returned after generating a program with two different gate
\* lines and a measurement line from a stream in which qubit 0 was allocated
C18_Witness ==
    /\ last.op = "flush" /\ last.err = "none" /\ last.called
    /\ Len(cqasm) = 6
    /\ cqasm[4].mn = "h" /\ cqasm[5].mn = "x"
    /\ IsMeasureLine(cqasm[6])
    /\ cqasm[3].qs = <<1>>
    /\ qasm = <<>> /\ clear

\* text ends with exactly the measurement lines of ids, in order, on the
\* slots the mapping m gives
EndsWithMeasures(text, ids, m) ==
    LET n == Len(ids) IN
    /\ Len(text) >= 3 + n
    /\ \A i \in 1..n : text[Len(text) - n + i] = MeasureLine(m[ids[i]])
    /\ \A k \in 4..(Len(text) - n) : ~IsMeasureLine(text[k])

\* C19: the program a flush generates ends with exactly one measurement line
\* per Measure command received since the previous flush, in arrival order
\* with duplicates kept, each on the slot the mapping gives its id at the
\* flush.
C19_MeasuresOfThisCircuit ==
    [][Generated => EndsWithMeasures(cqasm', stream.mids, mapping)]_vars

RECURSIVE Pow2(_)
Pow2(i) == IF i = 0 THEN 1 ELSE 2 * Pow2(i - 1)

\* bit i of v, the least significant bit being bit 0
Bit(v, i) == (v \div Pow2(i)) % 2

\* the n characters whose character i is bit i of v
BitString(v, n) == [i \in 1..n |-> Digit(Bit(v, i - 1))]

\* C20: a run that returns stores the probability of every register value v
\* of the histogram under the key of NQubits characters whose character i is
\* bit i of v, and every measurement result it writes is bit p of the sampled
\* register value, p the physical slot of the measured id.
C20_KeyIsBitsOfRegister ==
    [][RunSucceeds =>
        /\ \A k \in 1..Len(last'.hist) :
              LET v == last'.hist[k][1] IN
              /\ DictHas(probabilities', BitString(v, NQubits))
              /\ DictGet(probabilities', BitString(v, NQubits))
                     = IntTimes(NumRuns, last'.hist[k][2])
        /\ \A k \in 1..Len(probabilities') : Len(probabilities'[k][1]) = NQubits
        /\ last'.written # <<>> =>
              \E k \in 1..Len(last'.hist) :
                  /\ last'.measured = BitString(last'.hist[k][1], NQubits)
                  /\ \A i \in 1..Len(last'.written) :
                        last'.written[i][2]
                            = Bit(last'.hist[k][1], mapping[last'.written[i][1]])]_vars

\* a run has sampled the register value 2 and written 0 for the qubit on
\* slot 0 and 1 for the qubit on slot 1
C20_Witness ==
    /\ RunDone
    /\ Len(last.hist) = 1 /\ last.hist[1][1] = 2
    /\ last.measured = <<"0", "1">>
    /\ \E i, j \in 1..Len(last.written) :
          /\ mapping[last.written[i][1]] = 0 /\ last.written[i][2] = 0
          /\ mapping[last.written[j][1]] = 1 /\ last.written[j][2] = 1

\* C21: a command is_available has accepted is stored without
\* NotImplementedError and without a failed control-count assertion, for every
\* gate and control count: the only exception left is the assertion on a
\* Measure command that carries no logical id tag.
C21_AcceptedIsTranslated ==
    [][(Accepted /\ call'.op = "store") =>
        /\ last'.err # "NotImplementedError"
        /\ last'.err = "AssertionError" =>
              call.arg.gate = "Measure" /\ call.arg.tag = NoTag
        /\ (last'.err = "none" /\ call.arg.gate \notin {"Allocate", "Deallocate", "Measure"})
              => Len(qasm') = Len(Buffer0) + 1]_vars

\* a doubly controlled NOT has been accepted and stored as a Toffoli line
C21_Witness ==
    /\ call.op = "store" /\ call.done /\ call.ret = "none"
    /\ call.arg.gate = "X" /\ get_control_count(call.arg) = 2
    /\ qasm # <<>> /\ qasm[Len(qasm)].mn = "Toffoli"

\* the total stored for the outcomes that project onto key
RECURSIVE TotalOnto(_, _, _, _)
TotalOnto(probs, key, qureg, m) ==
    IF probs = <<>> THEN 0
    ELSE (IF Projected(Head(probs)[1], qureg, m) = key THEN Head(probs)[2] ELSE 0)
         + TotalOnto(Tail(probs), key, qureg, m)

\* C22: get_probabilities gives each output string the total probability of
\* the stored outcomes that project onto it, also for a register that names
\* only some of the qubits, so the returned probabilities sum to the total
\* of the stored mapping.
C22_ProjectionKeepsTotal ==
    (call.op = "get_probabilities" /\ call.done /\ call.ret.err = "none") =>
        LET result == call.ret.result IN
        /\ \A k \in 1..Len(result) :
              result[k][2] = TotalOnto(probabilities, result[k][1], call.arg, mapping)
        /\ DictSum(result) = DictSum(probabilities)
====
